---- MODULE Spec2Model ----
(***************************************************************************)
(* Resumable batch extraction of pricing data: the batch loop of main(),   *)
(* its checkpoint store, and the per-site driver get_pricing_data, in the  *)
(* three pipeline variants main.py, main_1_1.py and main_failed.py.        *)
(***************************************************************************)
EXTENDS Integers, Sequences, FiniteSets, TLC

(* ------------------------------ bounds -------------------------------- *)
MaxItems == 2          \* rows of the input CSV
MaxRanked == 3         \* URLs returned by find_pricing_routes
MaxRuns == 2           \* invocations of the script in one behaviour
MaxSitemaps == 2       \* sitemap documents a site serves
MaxCalls == 3          \* calls of init_playwright and close_playwright on one extractor
MaxStack == 12         \* frames of _extract_nested_sitemaps the model holds

(* ----------------------------- constants ------------------------------ *)
max_urls_to_try == 5
max_iterations == 50
max_depth == 10
max_links == 400

Names == {"a", "b"}
Websites == {"", "w"}
Variants == {"main", "main_1_1", "main_failed"}

(* A PricingResult is modelled by the shape of the dictionary stored.     *)
NoResult == "none"
\* get_pricing_data's three failure dictionaries share the kind "failure"
ResultKinds == {"success", "failure", "empty", "timeout", "unexpected"}

Items == [name : Names, website : Websites]

RECURSIVE SeqsUpTo(_, _)
SeqsUpTo(S, n) ==
    IF n = 0 THEN {<<>>}
    ELSE LET shorter == SeqsUpTo(S, n - 1)
         IN  shorter \cup {Append(s, x) : s \in {t \in shorter : Len(t) = n - 1}, x \in S}

Inputs == SeqsUpTo(Items, MaxItems)

\* keys of the dictionary stored for each kind of result ("failure": the keys
\* the three failure dictionaries of get_pricing_data share; "success": the
\* keys get_pricing_data sets, next to the non-empty "plans" of the analysis)
Fields(kind) ==
    CASE kind = "success" -> {"name", "domain", "source_url", "success", "content_length", "plans"}
      [] kind = "failure" -> {"name", "domain", "error", "success"}
      [] kind = "empty" -> {"error", "success"}
      [] kind \in {"timeout", "unexpected"} -> {"name", "website", "error", "success"}
      [] OTHER -> {}

\* the value stored under "success"
SuccessOf(kind) == kind = "success"

EmptyResults == [n \in Names |-> NoResult]
Keys(res) == {n \in Names : res[n] # NoResult}
NumResults(res) == Cardinality(Keys(res))

(* Files on disk: absent, torn (opened with 'w', dump not finished) or ok *)
AbsentFile == [state |-> "absent", results |-> EmptyResults, processed_count |-> 0, total_count |-> 0]
TornFile == [state |-> "torn", results |-> EmptyResults, processed_count |-> 0, total_count |-> 0]
CheckpointData(res, pcount, tcount) ==
    [state |-> "ok", results |-> res, processed_count |-> pcount, total_count |-> tcount]
ResultsData(res) ==
    [state |-> "ok", results |-> res, processed_count |-> 0, total_count |-> 0]

VARIABLES
    variant,          \* which script is run
    ckptFile,         \* <output>_checkpoint.json
    finalFile,        \* <output>.json
    pc,               \* position of the process; "idle" = no process running
    all_urls,         \* rows read from the CSV
    results,          \* in-memory results mapping
    processed_count,  \* processed_count as initialised at startup
    total_count,
    remaining_urls,
    i,                \* loop index of enumerate(remaining_urls)
    nUrls,            \* len(pricing_urls) in get_pricing_data
    k,                \* index of the pricing URL being tried (1-based)
    pricing_data,     \* value get_pricing_data is about to return
    alarm,            \* a SIGALRM is pending
    exitHow,          \* how the last run ended
    runs,             \* number of invocations so far
    api_key,          \* OPENROUTER_API_KEY as the process finds it: "set" or "unset"
    tried,            \* indexes of the pricing URLs extract_pricing_content was called on
    source_url,       \* index of the pricing URL stored as source_url (0: none)
    trial,            \* last pass of the URL loop: content extracted, analyzer called or not
    siteLog,          \* get_pricing_data for the current item: length of the list
                      \* find_pricing_routes returned, "error" and "attempted_urls" of
                      \* the failure dictionary it built, kind of dictionary it produced
    call,             \* one call of a helper method: arguments, position, result
    rk,               \* one call of find_pricing_routes: environment, position, result
    sm,               \* one call of _get_all_sitemap_links: sitemap graph, queue, stack
    \* history variables (observations, not program state)
    called,           \* names get_pricing_data was called for in this run
    calledRows,       \* positions in remaining_urls get_pricing_data was called for
    startCkpt,        \* checkpoint file as found at startup
    startFinal,       \* final results file as found at startup
    durable,          \* results held by the last checkpoint save this run finished
    savedCounts,      \* processed_count values written by this run's saves
    timedOut,         \* the alarm fired inside get_pricing_data for the current item
    interrupted,      \* an interrupt signal was delivered while the current item was processed
    ckptDeleted,      \* this run removed the checkpoint file
    finalPhase        \* progress of this run's final write

batchVars == <<variant, ckptFile, finalFile, pc, all_urls, results, processed_count,
               total_count, remaining_urls, i, nUrls, k, pricing_data, alarm, exitHow,
               runs, api_key, tried, source_url, trial, siteLog, called, calledRows, startCkpt,
               startFinal, durable, savedCounts, timedOut, interrupted, ckptDeleted,
               finalPhase>>

vars == <<variant, ckptFile, finalFile, pc, all_urls, results, processed_count,
          total_count, remaining_urls, i, nUrls, k, pricing_data, alarm, exitHow,
          runs, api_key, tried, source_url, trial, siteLog, rk, sm, call, called, calledRows, startCkpt,
          startFinal, durable, savedCounts, timedOut, interrupted, ckptDeleted,
          finalPhase>>

progVars == <<all_urls, results, processed_count, total_count, remaining_urls, i>>
gpdVars == <<nUrls, k, pricing_data, tried, source_url, siteLog>>
diskVars == <<ckptFile, finalFile>>
runHist == <<called, calledRows, startCkpt, startFinal, savedCounts, interrupted,
             ckptDeleted, finalPhase>>
\* what one run of the batch never changes
pureVars == <<rk, sm, call>>
fixedVars == <<variant, api_key, pureVars>>

(* ------------------------- pure helper functions ---------------------- *)
get_remaining_urls_unfiltered(urls, existing_results) == urls

get_remaining_urls_byCount(urls, existing_results) ==
    SubSeq(urls, NumResults(existing_results) + 1, Len(urls))

get_remaining_urls(urls, existing_results) ==
    SelectSeq(urls, LAMBDA u : u.name \notin Keys(existing_results))

load_existing_results(file) ==
    IF file.state = "ok" THEN file.results ELSE EmptyResults

\* None is modelled by the absent file record
load_checkpoint(file) ==
    IF file.state = "ok" THEN file ELSE AbsentFile

IsBlank_never(website) == FALSE

IsBlank(website) == website = ""

HasAlarm == variant \in {"main_1_1", "main_failed"}

SaveCount_reversed(pcount, idx) == pcount + Len(remaining_urls) - idx

SaveCount(pcount, idx) == pcount + idx + 1

LoopExhausted_early(idx, rem) == idx + 1 >= Len(rem)

LoopExhausted(idx, rem) == idx >= Len(rem)

LimitUrls_uncapped(n) == n

\* pricing_urls[:max_urls_to_try] in main.py; main_failed.py has no such cut
LimitUrls(n) ==
    IF variant = "main" /\ n > max_urls_to_try THEN max_urls_to_try ELSE n

CurrentItem == remaining_urls[i + 1]

Running == pc # "idle"

\* neither find_pricing_routes nor _get_all_sitemap_links is being observed
RkIdle == [pc |-> "off"]
SmIdle == [pc |-> "off"]
CallIdle == [pc |-> "off"]
\* no URL of the current site has been tried yet
NoTrial == [made |-> FALSE]
\* find_pricing_routes has not returned and no failure dictionary is built
NoLog == [ranked |-> 0, error |-> "none", attempted_urls |-> {}, produced |-> NoResult]
\* the call is over: what it produced is remembered until the item is done
Produced == [NoLog EXCEPT !.produced = siteLog.produced]

(* -------------------------------- Init -------------------------------- *)
BatchInit ==
    /\ variant \in Variants
    /\ ckptFile = AbsentFile
    /\ finalFile = AbsentFile
    /\ pc = "idle"
    /\ all_urls = <<>>
    /\ results = EmptyResults
    /\ processed_count = 0
    /\ total_count = 0
    /\ remaining_urls = <<>>
    /\ i = 0
    /\ nUrls = 0
    /\ k = 0
    /\ pricing_data = NoResult
    /\ alarm = FALSE
    /\ exitHow = "none"
    /\ runs = 0
    /\ api_key = "set"
    /\ tried = {}
    /\ source_url = 0
    /\ trial = NoTrial
    /\ siteLog = NoLog
    /\ called = {}
    /\ calledRows = {}
    /\ startCkpt = AbsentFile
    /\ startFinal = AbsentFile
    /\ durable = EmptyResults
    /\ savedCounts = <<>>
    /\ timedOut = FALSE
    /\ interrupted = FALSE
    /\ ckptDeleted = FALSE
    /\ finalPhase = "none"

Init ==
    /\ BatchInit
    /\ rk = RkIdle
    /\ sm = SmIdle
    /\ call = CallIdle

ResetRunHist ==
    /\ called' = {}
    /\ calledRows' = {}
    /\ durable' = EmptyResults
    /\ startCkpt' = ckptFile
    /\ startFinal' = finalFile
    /\ savedCounts' = <<>>
    /\ timedOut' = FALSE
    /\ interrupted' = FALSE
    /\ ckptDeleted' = FALSE
    /\ finalPhase' = "none"

(* ------------------------------ startup ------------------------------- *)
\* os.getenv("OPENROUTER_API_KEY"): a usable key ("set"), or None or the
\* empty string ("unset")
KeyStates == {"set", "unset"}

\* the script is launched: main() is entered
Invoke ==
    /\ pc = "idle"
    /\ runs < MaxRuns
    /\ runs' = runs + 1
    /\ pc' = "startup"
    /\ exitHow' = "running"
    /\ api_key' \in KeyStates
    /\ ResetRunHist
    /\ UNCHANGED <<variant, pureVars, trial, diskVars, progVars, gpdVars, alarm>>

\* main_1_1.py builds PricingExtractor(xai_api_key=...) from main.py, whose
\* __init__ has no such parameter and which is no context manager: main()
\* ends at the with statement, or earlier when the API key is not set.
StartMain11 ==
    /\ pc = "startup"
    /\ variant = "main_1_1"
    /\ exitHow' = IF api_key = "set" THEN "type_error" ELSE "no_key"
    /\ pc' = "idle"
    /\ UNCHANGED <<fixedVars, trial, diskVars, progVars, gpdVars, alarm, runs, runHist, durable,
                   timedOut>>

\* main.py and main_failed.py hand the key to OpenAI(api_key=...) unchecked:
\* with None and no other key in the environment the constructor raises and
\* main() ends; with the empty string, or another key in the environment,
\* it returns and the run goes on (Start, StartNoUrls)
StartKeyRejected ==
    /\ pc = "startup"
    /\ variant \in {"main", "main_failed"}
    /\ api_key = "unset"
    /\ exitHow' = "no_key"
    /\ pc' = "idle"
    /\ UNCHANGED <<fixedVars, trial, diskVars, progVars, gpdVars, alarm, runs, runHist, durable,
                   timedOut>>

\* read_urls_from_csv returned no rows
StartNoUrls ==
    /\ pc = "startup"
    /\ variant \in {"main", "main_failed"}
    /\ exitHow' = "no_urls"
    /\ pc' = "idle"
    /\ UNCHANGED <<fixedVars, trial, diskVars, progVars, gpdVars, alarm, runs, runHist, durable,
                   timedOut>>

\* what main() takes as results and processed_count from the two files
ResumesFrom(ckpt) ==
    load_checkpoint(ckpt).state = "ok" /\ Keys(load_checkpoint(ckpt).results) # {}

LoadedResults(ckpt, final) ==
    IF ResumesFrom(ckpt) THEN load_checkpoint(ckpt).results
    ELSE load_existing_results(final)

LoadedCount(ckpt, final) ==
    IF ResumesFrom(ckpt) THEN load_checkpoint(ckpt).processed_count
    ELSE NumResults(load_existing_results(final))

\* the CSV has rows: results, processed_count, remaining_urls and
\* total_count are set up
Start ==
    /\ pc = "startup"
    /\ variant \in {"main", "main_failed"}
    /\ \E urls \in Inputs \ {<<>>} :
         /\ all_urls' = urls
         /\ results' = LoadedResults(ckptFile, finalFile)
         /\ processed_count' = LoadedCount(ckptFile, finalFile)
         /\ remaining_urls' = get_remaining_urls(urls, LoadedResults(ckptFile, finalFile))
         /\ total_count' = Len(urls)
    /\ i' = 0
    /\ pc' = "loop"
    /\ UNCHANGED <<fixedVars, trial, diskVars, gpdVars, alarm, exitHow, runs, runHist, durable,
                   timedOut>>

(* ----------------------------- batch loop ----------------------------- *)
\* for i, item in enumerate(remaining_urls): an item whose website is blank
SkipEmpty_noSave ==
    /\ pc = "loop"
    /\ ~LoopExhausted(i, remaining_urls)
    /\ IsBlank(CurrentItem.website)
    /\ results' = [results EXCEPT ![CurrentItem.name] = "empty"]
    /\ i' = i + 1
    /\ UNCHANGED <<fixedVars, trial, diskVars, pc, all_urls, processed_count, total_count,
                   remaining_urls, gpdVars, alarm, exitHow, runs, runHist, durable,
                   timedOut>>

SkipEmpty ==
    /\ pc = "loop"
    /\ ~LoopExhausted(i, remaining_urls)
    /\ IsBlank(CurrentItem.website)
    /\ results' = [results EXCEPT ![CurrentItem.name] = "empty"]
    /\ pc' = "save"
    /\ UNCHANGED <<fixedVars, trial, diskVars, all_urls, processed_count, total_count,
                   remaining_urls, i, gpdVars, alarm, exitHow, runs, runHist, durable,
                   timedOut>>

\* the locals of get_pricing_data go out of scope
ClearLocals ==
    /\ nUrls' = 0
    /\ k' = 0
    /\ pricing_data' = NoResult
    /\ tried' = {}
    /\ source_url' = 0

\* the try block is entered, the alarm is armed where the variant has one,
\* and extractor.get_pricing_data(website, name) is called
BeginSite ==
    /\ pc = "loop"
    /\ ~LoopExhausted(i, remaining_urls)
    /\ ~IsBlank(CurrentItem.website)
    /\ alarm' = HasAlarm
    /\ pc' = "gpd_entry"
    /\ called' = called \cup {CurrentItem.name}
    /\ calledRows' = calledRows \cup {i + 1}
    /\ ClearLocals
    /\ siteLog' = NoLog
    /\ timedOut' = FALSE
    /\ UNCHANGED <<fixedVars, trial, diskVars, progVars, exitHow, runs, startCkpt, startFinal,
                   savedCounts, interrupted, ckptDeleted, finalPhase,
                   durable>>

\* The same call taken as one step, for the runs in which only its outcome
\* matters: get_pricing_data ends at one of its return statements, with a
\* success or a failure dictionary; where an alarm was armed it may have
\* fired inside the call and been taken by a handler of the extractor.
GetPricingData ==
    /\ pc = "loop"
    /\ ~LoopExhausted(i, remaining_urls)
    /\ ~IsBlank(CurrentItem.website)
    /\ called' = called \cup {CurrentItem.name}
    /\ \E data \in {"success", "failure"}, fired \in BOOLEAN :
         /\ fired => HasAlarm
         /\ pricing_data' = data
         /\ siteLog' = [NoLog EXCEPT !.produced = data]
         /\ alarm' = (HasAlarm /\ ~fired)
         /\ timedOut' = fired
         /\ data = "success" => api_key = "set"
    /\ calledRows' = calledRows \cup {i + 1}
    /\ nUrls' = 0
    /\ k' = 0
    /\ tried' = {}
    /\ source_url' = 0
    /\ pc' = "gpd_done"
    /\ UNCHANGED <<fixedVars, trial, diskVars, progVars, exitHow, runs, startCkpt, startFinal,
                   savedCounts, interrupted, ckptDeleted, finalPhase,
                   durable>>

(* --------------------------- content extractor ------------------------ *)
\* A string is kept as its length, its first word, whether the word "Error"
\* occurs in it and the HTTP status it quotes (0: none).
TextLens == {0, 99, 100, 101, 50000, 50001}
Texts == {t \in [len : TextLens, head : {"Error", "Plans"}, mentions : BOOLEAN, status : {0}] :
            /\ t.head = "Error" => t.mentions
            /\ t.len = 0 => (t.head = "Plans" /\ ~t.mentions)}

\* what the site answers: session.get (and, in main_failed.py, the rendering
\* by Playwright) raises or returns; the markup holds pricing indicators or not
Pages == [fetch : {"ok", "raises"}, status : {200, 404, 500}, body : BOOLEAN, text : Texts,
          indicators : BOOLEAN, rendered : BOOLEAN, msg_len : {20, 120}]

\* an f-string that begins with "Error"
ErrorString(len, status) == [len |-> len, head |-> "Error", mentions |-> TRUE, status |-> status]

\* text[:50000]; an occurrence of "Error" is taken to lie before the cut
Truncate(text) == [text EXCEPT !.len = IF @ > 50000 THEN 50000 ELSE @]

\* "return full_body_text[:50000]", reached with pricing_found either way
ReturnedText_gated(page, pricing_found) ==
    IF pricing_found THEN Truncate(page.text) ELSE ErrorString(32, 0)

ReturnedText(page, pricing_found) == Truncate(page.text)

\* the requests path: main.py's extract_pricing_content, whose except clause
\* writes "Error extracting content: ..." (prefix_len 26), and
\* main_failed.py's _extract_with_requests, which writes "Error: ..." (7)
extract_with_requests(page, prefix_len) ==
    IF page.fetch = "raises" THEN ErrorString(prefix_len + page.msg_len, 0)
    ELSE IF page.status # 200 THEN ErrorString(15, page.status)
    ELSE IF ~page.body THEN ErrorString(24, 0)
    ELSE ReturnedText(page, page.indicators)

\* main_failed.py's _extract_with_playwright: "" on any error, else the text
extract_with_playwright(page) ==
    IF page.rendered THEN Truncate(page.text)
    ELSE [len |-> 0, head |-> "Plans", mentions |-> FALSE, status |-> 0]

extract_pricing_content(v, page) ==
    IF v = "main_failed"
    THEN IF extract_with_playwright(page).len > 100 THEN extract_with_playwright(page)
         ELSE IF extract_with_requests(page, 7).len > 100 THEN extract_with_requests(page, 7)
         ELSE ErrorString(51, 0)
    ELSE extract_with_requests(page, 26)

\* what get_pricing_data looks at in the content: whether it begins with
\* "Error", whether "Error" occurs in it, whether it has 100 characters
Shape(content) == [head |-> content.head, mentions |-> content.mentions, long |-> content.len >= 100]

\* the strings extract_pricing_content can return in each script
Contents == [v \in Variants |-> {Shape(extract_pricing_content(v, page)) : page \in Pages}]

\* not ("Error" in content or len(content) < 100)
Usable(content) == ~(content.mentions \/ ~content.long)

(* --------------------------- get_pricing_data ------------------------- *)
\* the banner is printed and find_pricing_routes is entered
GpdEnter ==
    /\ pc = "gpd_entry"
    /\ pc' = "gpd_discover"
    /\ trial' = NoTrial
    /\ UNCHANGED <<fixedVars, diskVars, progVars, gpdVars, alarm, exitHow, runs, runHist,
                   durable, timedOut>>

\* find_pricing_routes raised: the failure dictionary is returned
DiscoverRaises ==
    /\ pc = "gpd_discover"
    /\ pricing_data' = "failure"
    /\ siteLog' = [siteLog EXCEPT !.error = "Error finding pricing routes: e",
                                    !.produced = "failure"]
    /\ pc' = "gpd_done"
    /\ UNCHANGED <<fixedVars, trial, diskVars, progVars, nUrls, k, tried, source_url, alarm,
                   exitHow, runs, runHist, durable, timedOut>>

\* lengths of the list find_pricing_routes returns: the short ones, and one
\* that is longer than max_urls_to_try
RankedCounts == 0..MaxRanked \cup {max_urls_to_try + 1}

NoneFound_never(n) == FALSE

\* if not pricing_urls
NoneFound(n) == n = 0

\* find_pricing_routes returned a list of n URLs
DiscoverReturns ==
    /\ pc = "gpd_discover"
    /\ \E n \in RankedCounts :
         IF NoneFound(n)
         THEN /\ pricing_data' = "failure"
              /\ siteLog' = [siteLog EXCEPT !.error = "No pricing pages found",
                                             !.produced = "failure"]
              /\ pc' = "gpd_done"
              /\ UNCHANGED <<nUrls, k>>
         ELSE /\ nUrls' = LimitUrls(n)
              /\ siteLog' = [siteLog EXCEPT !.ranked = n]
              /\ k' = 1
              /\ pc' = "gpd_ranked"
              /\ UNCHANGED pricing_data
    /\ UNCHANGED <<fixedVars, trial, diskVars, progVars, tried, source_url, alarm, exitHow, runs,
                   runHist, durable, timedOut>>

\* head of the loop over pricing_urls: the next URL is taken, or the loop
\* is exhausted and the "All URLs failed" dictionary is returned
NextUrl ==
    /\ pc = "gpd_ranked"
    /\ IF k <= nUrls
       THEN /\ pc' = "gpd_try"
            /\ UNCHANGED <<pricing_data, siteLog>>
       ELSE /\ pricing_data' = "failure"
            /\ siteLog' = [siteLog EXCEPT
                             !.error = "All URLs failed to yield valid pricing data",
                             !.attempted_urls = 1..nUrls,
                             !.produced = "failure"]
            /\ pc' = "gpd_done"
    /\ trial' = NoTrial
    /\ UNCHANGED <<fixedVars, diskVars, progVars, nUrls, k, tried, source_url, alarm,
                   exitHow, runs, runHist, durable, timedOut>>

NextIndex_stuck(idx) == idx

\* for i, pricing_url in enumerate(pricing_urls): the following URL
NextIndex(idx) == idx + 1

\* 'plans' in pricing_data and pricing_data['plans']
FoundPlans(outcome) == outcome = "plans"

\* "source_url": pricing_url, the URL of the current iteration
SourceOf_first(idx) == 1

SourceOf(idx) == idx

\* body of the try block for one URL: content extraction, then analysis
TryUrl ==
    /\ pc = "gpd_try"
    /\ tried' = tried \cup {k}
    /\ \E content \in Contents[variant], analysis \in {"no_plans", "exception", "plans"} :
       LET outcome == IF Usable(content) THEN analysis ELSE "bad_content" IN
         /\ ~Usable(content) => analysis = "no_plans"
         /\ outcome = "plans" => api_key = "set"
         /\ trial' = [made |-> TRUE, content |-> content, analyzed |-> Usable(content)]
         /\ IF FoundPlans(outcome)
            THEN /\ pricing_data' = "success"
                 /\ source_url' = SourceOf(k)
                 /\ siteLog' = [siteLog EXCEPT !.produced = "success"]
                 /\ pc' = "gpd_done"
                 /\ UNCHANGED k
            ELSE /\ k' = NextIndex(k)
                 /\ pc' = "gpd_ranked"
                 /\ UNCHANGED <<pricing_data, source_url, siteLog>>
    /\ UNCHANGED <<fixedVars, diskVars, progVars, nUrls, alarm, exitHow, runs,
                   runHist, durable, timedOut>>

\* get_pricing_data returns; results[name] = pricing_data
GpdReturn ==
    /\ pc = "gpd_done"
    /\ results' = [results EXCEPT ![CurrentItem.name] = pricing_data]
    /\ pc' = IF HasAlarm THEN "assigned" ELSE "save"
    /\ ClearLocals
    /\ siteLog' = Produced
    /\ trial' = NoTrial
    /\ UNCHANGED <<fixedVars, diskVars, all_urls, processed_count, total_count,
                   remaining_urls, i, alarm, exitHow, runs, runHist, durable,
                   timedOut>>

\* finally: signal.alarm(0)
CancelAlarm_skipped ==
    /\ pc = "assigned"
    /\ pc' = "save"
    /\ UNCHANGED <<fixedVars, trial, diskVars, progVars, gpdVars, alarm, exitHow, runs, runHist,
                   durable, timedOut>>

CancelAlarm ==
    /\ pc = "assigned"
    /\ alarm' = FALSE
    /\ pc' = "save"
    /\ UNCHANGED <<fixedVars, trial, diskVars, progVars, gpdVars, exitHow, runs, runHist,
                   durable, timedOut>>

(* ------------------------ per-site timeout signal --------------------- *)
InFlight == pc \in {"gpd_entry", "gpd_discover", "gpd_ranked", "gpd_try", "gpd_done"}

\* timeout_handler raises TimeoutError at a point no handler of the
\* extractor encloses: main()'s "except TimeoutError" records the failure
TimeoutPropagates ==
    /\ alarm
    /\ pc \in {"gpd_entry", "gpd_ranked", "gpd_done", "assigned"}
    /\ alarm' = FALSE
    /\ timedOut' = (timedOut \/ InFlight)
    /\ results' = [results EXCEPT ![CurrentItem.name] = "timeout"]
    /\ pc' = "save"
    /\ ClearLocals
    /\ siteLog' = Produced
    /\ UNCHANGED <<fixedVars, trial, diskVars, all_urls, processed_count, total_count,
                   remaining_urls, i, exitHow, runs, runHist, durable>>

\* TimeoutError is an Exception: raised inside find_pricing_routes it is
\* taken by a handler of a helper (discovery goes on) or by the handler of
\* get_pricing_data around find_pricing_routes (a failure is returned)
TimeoutInDiscovery ==
    /\ alarm
    /\ pc = "gpd_discover"
    /\ alarm' = FALSE
    /\ timedOut' = TRUE
    /\ \/ UNCHANGED <<pc, pricing_data, siteLog>>
       \/ /\ pricing_data' = "failure"
          /\ siteLog' = [siteLog EXCEPT !.error = "Error finding pricing routes: e",
                                         !.produced = "failure"]
          /\ pc' = "gpd_done"
    /\ UNCHANGED <<fixedVars, trial, diskVars, progVars, nUrls, k, tried, source_url, exitHow,
                   runs, runHist, durable>>

\* raised inside the try block of one URL it is taken by a handler of the
\* content extractor (the trial goes on) or by "except Exception: continue"
TimeoutInTrial ==
    /\ alarm
    /\ pc = "gpd_try"
    /\ alarm' = FALSE
    /\ timedOut' = TRUE
    /\ tried' = tried \cup {k}
    /\ \/ UNCHANGED <<pc, k>>
       \/ /\ k' = NextIndex(k)
          /\ pc' = "gpd_ranked"
    /\ UNCHANGED <<fixedVars, trial, diskVars, progVars, nUrls, pricing_data, source_url,
                   siteLog, exitHow, runs, runHist, durable>>

(* ------------------- exception escaping get_pricing_data -------------- *)
UnexpectedError_noSave ==
    /\ pc \in {"gpd_entry", "gpd_ranked", "gpd_done"}
    /\ alarm' = FALSE
    /\ results' = [results EXCEPT ![CurrentItem.name] = "unexpected"]
    /\ i' = i + 1
    /\ pc' = "loop"
    /\ ClearLocals
    /\ siteLog' = NoLog
    /\ UNCHANGED <<fixedVars, trial, diskVars, all_urls, processed_count, total_count,
                   remaining_urls, exitHow, runs, runHist, durable, timedOut>>

\* an exception raised outside the try blocks of get_pricing_data reaches
\* main()'s "except Exception": failure result, then save_checkpoint
UnexpectedError ==
    /\ pc \in {"gpd_entry", "gpd_ranked", "gpd_done"}
    /\ alarm' = FALSE
    /\ results' = [results EXCEPT ![CurrentItem.name] = "unexpected"]
    /\ pc' = "save"
    /\ ClearLocals
    /\ siteLog' = Produced
    /\ UNCHANGED <<fixedVars, trial, diskVars, all_urls, processed_count, total_count,
                   remaining_urls, i, exitHow, runs, runHist, durable, timedOut>>

(* ------------------------------ checkpoint ---------------------------- *)
\* save_checkpoint: open(checkpoint_file, 'w') truncates the file
SaveOpen ==
    /\ pc = "save"
    /\ ckptFile' = TornFile
    /\ pc' = "save_mid"
    /\ UNCHANGED <<fixedVars, trial, finalFile, progVars, gpdVars, alarm, exitHow, runs, runHist,
                   durable, timedOut>>

\* json.dump finishes and the file is closed; the loop moves to the next item
SaveDump ==
    /\ pc = "save_mid"
    /\ ckptFile' = CheckpointData(results, SaveCount(processed_count, i), total_count)
    /\ savedCounts' = Append(savedCounts, SaveCount(processed_count, i))
    /\ durable' = results
    /\ i' = i + 1
    /\ pc' = "loop"
    /\ timedOut' = FALSE
    /\ interrupted' = FALSE
    /\ siteLog' = NoLog
    /\ UNCHANGED <<fixedVars, trial, finalFile, all_urls, results, processed_count, total_count,
                   remaining_urls, nUrls, k, pricing_data, tried, source_url, alarm, exitHow, runs, called, calledRows, startCkpt,
                   startFinal, ckptDeleted, finalPhase>>

(* ------------------------------ completion ---------------------------- *)
\* the process is gone: nothing of its memory is left
ProcessEnds ==
    /\ pc' = "idle"
    /\ alarm' = FALSE
    /\ all_urls' = <<>>
    /\ results' = EmptyResults
    /\ processed_count' = 0
    /\ total_count' = 0
    /\ remaining_urls' = <<>>
    /\ i' = 0
    /\ ClearLocals
    /\ siteLog' = NoLog

FinalOpen_removesCheckpoint ==
    /\ pc = "loop"
    /\ LoopExhausted(i, remaining_urls)
    /\ finalFile' = TornFile
    /\ finalPhase' = "open"
    /\ ckptFile' = AbsentFile
    /\ ckptDeleted' = (ckptFile.state # "absent")
    /\ pc' = "final_mid"
    /\ UNCHANGED <<fixedVars, trial, progVars, gpdVars, alarm, exitHow, runs, called, calledRows,
                   startCkpt, startFinal, savedCounts, interrupted,
                   durable, timedOut>>

\* with open(output_file, 'w'): the final results file is truncated
FinalOpen ==
    /\ pc = "loop"
    /\ LoopExhausted(i, remaining_urls)
    /\ finalFile' = TornFile
    /\ finalPhase' = "open"
    /\ pc' = "final_mid"
    /\ UNCHANGED <<fixedVars, trial, ckptFile, progVars, gpdVars, alarm, exitHow, runs, called, calledRows,
                   startCkpt, startFinal, savedCounts, interrupted,
                   ckptDeleted, durable, timedOut>>

FinalDump ==
    /\ pc = "final_mid"
    /\ finalFile' = ResultsData(results)
    /\ finalPhase' = "written"
    /\ pc' = "cleanup"
    /\ UNCHANGED <<fixedVars, trial, ckptFile, progVars, gpdVars, alarm, exitHow, runs, called, calledRows,
                   startCkpt, startFinal, savedCounts, interrupted,
                   ckptDeleted, durable, timedOut>>

\* os.remove(checkpoint_file) when it exists; a failure of the removal is
\* passed over; main() returns results
Cleanup ==
    /\ pc = "cleanup"
    /\ \/ /\ ckptFile.state # "absent"
          /\ ckptFile' = AbsentFile
          /\ ckptDeleted' = TRUE
       \/ UNCHANGED <<ckptFile, ckptDeleted>>
    /\ exitHow' = "complete"
    /\ ProcessEnds
    /\ UNCHANGED <<fixedVars, trial, finalFile, runs, called, calledRows,
                   startCkpt, startFinal, savedCounts, interrupted,
                   finalPhase, durable, timedOut>>

(* ----------------------- interrupt signal and crash ------------------- *)
\* KeyboardInterrupt (main.py) or SystemExit from signal_handler
\* (main_failed.py) raised where no handler takes it: the process ends
InterruptStops ==
    /\ Running
    /\ interrupted' = TRUE
    /\ exitHow' = "interrupted"
    /\ ProcessEnds
    /\ UNCHANGED <<fixedVars, trial, diskVars, runs, called, calledRows, startCkpt,
                   startFinal, savedCounts, ckptDeleted, finalPhase,
                   durable, timedOut>>

\* places where a bare "except:" encloses the interrupted call
SwallowsInterrupt ==
    \/ pc = "gpd_discover"
    \/ pc = "gpd_try" /\ variant = "main_failed"

\* the interrupt is raised inside a bare "except:" block and is discarded
InterruptSwallowed ==
    /\ Running
    /\ SwallowsInterrupt
    /\ interrupted' = TRUE
    /\ UNCHANGED <<fixedVars, trial, diskVars, pc, progVars, gpdVars, alarm, exitHow, runs,
                   called, calledRows, startCkpt, startFinal, savedCounts,
                   ckptDeleted, finalPhase, durable, timedOut>>

\* the process is killed, or the machine stops
Crash ==
    /\ Running
    /\ exitHow' = "crashed"
    /\ ProcessEnds
    /\ UNCHANGED <<fixedVars, trial, diskVars, runs, runHist, durable, timedOut>>

(* ------------------------- existence checker -------------------------- *)
\* what a request of the session does: status 200, another status, or an
\* exception (timeout, connection error)
Outcomes == {"200", "404", "raises"}
Probes == [head : Outcomes, get : Outcomes]

HeadSucceeded(p) == p.head = "200"

\* the order of main_failed.py: GET first, HEAD when it fails
check_url_exists_getFirst(p) ==
    IF p.get = "200"
    THEN [verdict |-> TRUE, calls |-> <<"GET">>, raised |-> FALSE]
    ELSE [verdict |-> p.head = "200", calls |-> <<"GET", "HEAD">>, raised |-> FALSE]

\* without the handler around the GET
check_url_exists_propagates(p) ==
    IF HeadSucceeded(p)
    THEN [verdict |-> TRUE, calls |-> <<"HEAD">>, raised |-> FALSE]
    ELSE [verdict |-> p.get = "200", calls |-> <<"HEAD", "GET">>, raised |-> p.get = "raises"]

\* _check_url_exists: the verdict, the requests issued, and whether an
\* exception leaves the method
check_url_exists(p) ==
    IF HeadSucceeded(p)
    THEN [verdict |-> TRUE, calls |-> <<"HEAD">>, raised |-> FALSE]
    ELSE [verdict |-> p.get = "200", calls |-> <<"HEAD", "GET">>, raised |-> FALSE]

(* -------------------------------- ranker ------------------------------ *)
Domain == "d"
Urls == {"d", "d/pricing", "d/plans", "d/about"}

\* any(keyword in link.lower() for keyword in pricing_keywords)
HasKeyword(link) == link \in {"d/pricing", "d/plans"}

\* urljoin(domain, path) for the paths of common_paths ('/pricing' and
\* '/plans' stand for the five)
CommonUrls == <<"d/pricing", "d/plans">>

\* how each URL answers: at once, to the GET only, with an error status, or
\* not at all
NetProbes == {[head |-> "200", get |-> "200"], [head |-> "raises", get |-> "200"],
              [head |-> "404", get |-> "404"], [head |-> "raises", get |-> "raises"]}
Nets == [Urls -> NetProbes]

Range(s) == {s[j] : j \in 1..Len(s)}

\* the orders in which list(set(...)) may enumerate a set
Perms(S) == {s \in [1..Cardinality(S) -> S] : Range(s) = S}

\* completion.choices[0].message.content as a token sequence: "t" is prose,
\* "p" the members of a JSON object
ResponseTexts == {<<>>, <<"t">>, <<"{", "p", "}">>, <<"t", "{", "p", "}", "t">>,
                  <<"{", "p">>, <<"{", "p", "}", "t", "}">>, <<"}", "t", "{">>,
                  <<"{", "p", "}", "t", "{", "t", "}">>}

\* re.search(r'\{.*\}', response_text, re.DOTALL): from the first "{" to the
\* last "}" behind it; <<>> stands for no match
JsonMatch(text) ==
    LET opens == {j \in 1..Len(text) : text[j] = "{"}
        closes == {j \in 1..Len(text) : text[j] = "}"}
    IN  IF opens = {} THEN <<>>
        ELSE LET first == CHOOSE j \in opens : \A j2 \in opens : j <= j2
                 after == {j \in closes : j > first}
             IN  IF after = {} THEN <<>>
                 ELSE SubSeq(text, first, CHOOSE j \in after : \A j2 \in after : j2 <= j)

JsonLoads_lenient(group) == TRUE

\* json.loads(json_match.group()) returns (TRUE) or raises (FALSE)
JsonLoads(group) == group = <<"{", "p", "}">>

\* the value under "pricing_urls" of a response that parses
Payloads == {[type |-> "missing", urls |-> <<>>], [type |-> "null", urls |-> <<>>],
             [type |-> "number", urls |-> <<>>], [type |-> "string", urls |-> <<>>],
             [type |-> "list", urls |-> <<>>], [type |-> "list", urls |-> <<"d/pricing">>],
             [type |-> "list", urls |-> <<"d/about", "d">>],
             [type |-> "list", urls |-> <<"d/plans", "d/pricing">>]}
NoPayload == [type |-> "missing", urls |-> <<>>]

\* behaviours of client.chat.completions.create: it raises, the content is
\* None, or the content is a text
Responses ==
    {[call |-> c, text |-> <<>>, pricing_urls |-> NoPayload] : c \in {"raises", "none"}}
    \cup {[call |-> "text", text |-> t, pricing_urls |-> NoPayload] :
             t \in {t2 \in ResponseTexts : ~JsonLoads(JsonMatch(t2))}}
    \cup {[call |-> "text", text |-> t, pricing_urls |-> pl] :
             t \in {t2 \in ResponseTexts : JsonLoads(JsonMatch(t2))}, pl \in Payloads}

RECURSIVE AddCommon(_, _, _)
AddCommon(acc, paths, net) ==
    IF paths = <<>> THEN acc
    ELSE LET url == Head(paths)
         IN  AddCommon(IF check_url_exists(net[url]).verdict /\ url \notin Range(acc)
                       THEN Append(acc, url) ELSE acc,
                       Tail(paths), net)

\* a method's outcome: it raises, or it returns value; checked lists the URLs
\* it called _check_url_exists on, in the order of the calls
Returned(value) == [raised |-> FALSE, value |-> value, checked |-> <<>>]
Raised == [raised |-> TRUE, value |-> <<>>, checked |-> <<>>]

fallback_pricing_urls(domain, all_links, net) ==
    LET byKeyword == SelectSeq(all_links,
                        LAMBDA l : HasKeyword(l) /\ check_url_exists(net[l]).verdict)
        homeChecked == domain \notin Range(byKeyword)
        withHome == IF homeChecked /\ check_url_exists(net[domain]).verdict
                    THEN Append(byKeyword, domain) ELSE byKeyword
        checked == SelectSeq(all_links, HasKeyword)
                   \o (IF homeChecked THEN <<domain>> ELSE <<>>) \o CommonUrls
    IN  IF \E u \in Range(checked) : check_url_exists(net[u]).raised THEN Raised
        ELSE [Returned(AddCommon(withHome, CommonUrls, net)) EXCEPT !.checked = checked]

\* without the test of _check_url_exists in the loop
VerifiedUrls_unfiltered(payload, net) ==
    CASE payload.type \in {"null", "number"} -> Raised
      [] payload.type = "string" -> Returned(<<>>)
      [] OTHER -> [Returned(payload.urls) EXCEPT !.checked = payload.urls]

\* the try block behind the JSON match: the URLs of the response that exist
VerifiedUrls(payload, net) ==
    CASE payload.type \in {"null", "number"} -> Raised      \* for url in pricing_urls
      [] payload.type = "string" -> Returned(<<>>)          \* no character is a URL
      [] OTHER ->
           IF \E u \in Range(payload.urls) : check_url_exists(net[u]).raised THEN Raised
           ELSE [Returned(SelectSeq(payload.urls,
                                    LAMBDA u : check_url_exists(net[u]).verdict))
                   EXCEPT !.checked = payload.urls]

ai_identify_pricing_links(domain, links, response, net) ==
    LET all_links == IF domain \in Range(links) THEN links ELSE Append(links, domain)
        fallback == fallback_pricing_urls(domain, all_links, net)
        group == JsonMatch(response.text)
    IN  IF response.call # "text" THEN fallback
        ELSE IF group = <<>> THEN fallback
        ELSE IF ~JsonLoads(group) THEN fallback
        ELSE IF VerifiedUrls(response.pricing_urls, net).raised THEN fallback
        ELSE VerifiedUrls(response.pricing_urls, net)

\* all_links + sitemap_links, as the link collector and the sitemap traversal
\* return them
CollectedLinks == {<<>>, <<"d/pricing">>, <<"d/about", "d/pricing">>, <<"d/plans", "d", "d/about">>}

\* all_possible_links is list(set(all_links + sitemap_links + homepage_links))
find_pricing_routes(domain, all_possible_links, response, net) ==
    IF all_possible_links = <<>> THEN Returned(<<domain>>)
    ELSE ai_identify_pricing_links(domain, all_possible_links, response, net)

RkInputs == [pc : {"start"}, net : Nets, collected : CollectedLinks, response : Responses]

\* find_pricing_routes(domain) is called
RkFindPricingRoutes ==
    /\ rk.pc = "start"
    /\ \E order \in Perms(Range(rk.collected) \cup {Domain}) :
         rk' = [pc |-> "returned", net |-> rk.net, collected |-> order,
                response |-> rk.response,
                result |-> find_pricing_routes(Domain, order, rk.response, rk.net)]
    /\ UNCHANGED <<batchVars, sm, call>>

\* _ai_identify_pricing_links(domain, all_links) is called
RkIdentify ==
    /\ rk.pc = "start"
    /\ rk' = [pc |-> "identified", net |-> rk.net, collected |-> rk.collected,
              response |-> rk.response,
              result |-> ai_identify_pricing_links(Domain, rk.collected, rk.response, rk.net)]
    /\ UNCHANGED <<batchVars, sm, call>>

\* _check_url_exists(url) is called on a URL that answers in any way
RkCheckUrl ==
    /\ rk.pc = "start"
    /\ \E p \in Probes : rk' = [pc |-> "probed", probe |-> p, result |-> check_url_exists(p)]
    /\ UNCHANGED <<batchVars, sm, call>>

InitRank ==
    /\ BatchInit
    /\ variant = "main"
    /\ rk \in RkInputs
    /\ sm = SmIdle
    /\ call = CallIdle

NextRank ==
    \/ RkFindPricingRoutes
    \/ RkIdentify
    \/ RkCheckUrl

SpecRank == InitRank /\ [][NextRank]_vars

(* --------------------------- sitemap traversal ------------------------ *)
\* The sitemap documents of a site are numbered; refs[n] are the sitemaps
\* document n lists, live the documents _check_url_exists finds.
Sitemaps == 1..MaxSitemaps
SitemapGraphs == [Sitemaps -> SUBSET Sitemaps]

\* a site that reaches both caps: a chain of indexes 1 -> 2 -> ... deeper than
\* max_depth, and max_iterations further sitemap URLs that do not exist
DeepChain == 1..(max_depth + 3)
DeepUrls == 1..(max_depth + 3 + max_iterations)
DeepSite ==
    [refs |-> [n \in DeepUrls |-> IF n + 1 \in DeepChain THEN {n + 1} ELSE {}],
     live |-> DeepChain,
     seeds |-> <<1>> \o [j \in 1..max_iterations |-> max_depth + 3 + j]]

\* the page URLs document n lists, next to its nested sitemaps
PageOf(n) == 0 - n
SmUrls == DeepUrls \cup {PageOf(n) : n \in DeepUrls}

\* _is_sitemap_index, for a document that is fetched the same way each time:
\* only a document that lists sitemaps is expanded
IsIndex(refs, n) == refs[n] # {}

RECURSIVE SortedSeq(_)
SortedSeq(S) ==
    IF S = {} THEN <<>>
    ELSE LET least == CHOOSE x \in S : \A y \in S : x <= y
         IN  <<least>> \o SortedSeq(S \ {least})

\* the recursive call on a nested sitemap is made and gets past its guards:
\* "if nested_sitemap not in processed_urls", then "if depth > 10" and
\* "if sitemap_index_url in processed_urls" of the callee
Descends_always(url, processed_urls, depth) == TRUE

Descends(url, processed_urls, depth) ==
    /\ url \notin processed_urls
    /\ ~(depth + 1 > max_depth)

\* for nested_sitemap in nested_sitemaps: append the ones neither processed
\* nor queued
\* (nested holds no URL twice: it is list(set(...)))
Enqueue(queue, nested, processed) ==
    queue \o SelectSeq(nested, LAMBDA url : url \notin processed /\ url \notin Range(queue))

Frame(refs, url) == [url |-> url, nested |-> SortedSeq(refs[url]), j |-> 1, additional |-> {}]

\* sitemap_urls as _discover_sitemap_urls returns them
SeedLists == {<<1>>, <<1, 1>>} \cup {<<1, n>> : n \in Sitemaps}

\* extracted, expanded and deepest are observations: the sitemaps whose links
\* were extracted, the sitemaps _extract_nested_sitemaps fetched, the greatest
\* depth it fetched at
SmInputs ==
    LET Started(site) ==
            [pc |-> "loop", refs |-> site.refs, live |-> site.live,
             sitemap_queue |-> site.seeds, processed_sitemaps |-> {},
             all_sitemap_links |-> {}, iterations |-> 0, stack |-> <<>>,
             processed_urls |-> {}, nested_sitemaps |-> {},
             extracted |-> <<>>, expanded |-> <<>>, deepest |-> 0]
    IN  {Started(site) : site \in [refs : SitemapGraphs, live : SUBSET Sitemaps, seeds : SeedLists]
                                    \cup {DeepSite}}

SmLoopRuns_uncapped == sm.sitemap_queue # <<>>

SmLoopRuns == sm.sitemap_queue # <<>> /\ sm.iterations < max_iterations

\* the two "continue" tests at the head of the loop body
SkipsSitemap_existenceOnly(sitemap_url) == sitemap_url \notin sm.live

SkipsSitemap(sitemap_url) ==
    sitemap_url \in sm.processed_sitemaps \/ sitemap_url \notin sm.live

\* one iteration of the while loop, up to the call of _extract_nested_sitemaps
SmIterate ==
    /\ sm.pc = "loop"
    /\ SmLoopRuns
    /\ LET sitemap_url == Head(sm.sitemap_queue)
           popped == [sm EXCEPT !.iterations = @ + 1, !.sitemap_queue = Tail(@)]
           taken == [popped EXCEPT
                        !.processed_sitemaps = @ \cup {sitemap_url},
                        !.all_sitemap_links = @ \cup sm.refs[sitemap_url]
                                                \cup {PageOf(sitemap_url)},
                        !.extracted = Append(@, sitemap_url)]
       IN  IF SkipsSitemap(sitemap_url)
           THEN sm' = popped
           ELSE IF IsIndex(sm.refs, sitemap_url)
           THEN sm' = [taken EXCEPT !.pc = "nested",
                                    !.stack = <<Frame(sm.refs, sitemap_url)>>,
                                    !.processed_urls = {sitemap_url},
                                    !.expanded = Append(@, sitemap_url)]
           ELSE sm' = taken
    /\ UNCHANGED <<batchVars, rk, call>>

\* _extract_nested_sitemaps: one round of "for nested_sitemap in
\* nested_sitemaps[:]" in the innermost call, or its return
SmNested ==
    /\ sm.pc = "nested"
    /\ LET depth == Len(sm.stack) - 1
           top == sm.stack[Len(sm.stack)]
           below == SubSeq(sm.stack, 1, Len(sm.stack) - 1)
           ret == Range(top.nested) \cup top.additional
           skip == [sm EXCEPT !.stack[Len(sm.stack)].j = @ + 1]
       IN  IF top.j > Len(top.nested)
           THEN IF below = <<>>
                THEN sm' = [sm EXCEPT !.stack = <<>>, !.processed_urls = {},
                                      !.nested_sitemaps = ret, !.pc = "enqueue"]
                ELSE sm' = [sm EXCEPT !.stack =
                               [below EXCEPT ![Len(below)].additional = @ \cup ret,
                                             ![Len(below)].j = @ + 1]]
           ELSE LET nested_sitemap == top.nested[top.j]
                IN  IF IsIndex(sm.refs, nested_sitemap)
                       /\ Descends(nested_sitemap, sm.processed_urls, depth)
                    THEN /\ Len(sm.stack) < MaxStack
                         /\ sm' = [sm EXCEPT
                                      !.stack = Append(@, Frame(sm.refs, nested_sitemap)),
                                      !.processed_urls = @ \cup {nested_sitemap},
                                      !.expanded = Append(@, nested_sitemap),
                                      !.deepest = IF depth + 1 > @ THEN depth + 1 ELSE @]
                    ELSE sm' = skip
    /\ UNCHANGED <<batchVars, rk, call>>

\* list(set(nested_sitemaps)) comes in any order; for a set larger than the
\* small sites have, one order is followed
Orders(S) == IF Cardinality(S) <= MaxSitemaps + 1 THEN Perms(S) ELSE {SortedSeq(S)}

\* the nested sitemaps are added to the queue, in the order the set gives
SmEnqueue ==
    /\ sm.pc = "enqueue"
    /\ \E order \in Orders(sm.nested_sitemaps) :
         sm' = [sm EXCEPT !.sitemap_queue = Enqueue(@, order, sm.processed_sitemaps),
                          !.nested_sitemaps = {},
                          !.pc = "loop"]
    /\ UNCHANGED <<batchVars, rk, call>>

\* the while loop ends; list(all_sitemap_links) is returned
SmReturn ==
    /\ sm.pc = "loop"
    /\ ~SmLoopRuns
    /\ sm' = [sm EXCEPT !.pc = "done"]
    /\ UNCHANGED <<batchVars, rk, call>>

InitSitemap ==
    /\ BatchInit
    /\ variant = "main"
    /\ rk = RkIdle
    /\ sm \in SmInputs
    /\ call = CallIdle

NextSitemap ==
    \/ SmIterate
    \/ SmNested
    \/ SmEnqueue
    \/ SmReturn

\* the traversal is sequential code: it takes its next step
SpecSitemap == InitSitemap /\ [][NextSitemap]_vars /\ WF_vars(NextSitemap)

(* ------------------------------ _is_valid_url -------------------------- *)
\* A URL text is kept as what urlparse splits off it and the end of the text
\* from its last dot on; "[bad" is a host part urlparse rejects (ValueError).
UrlTexts == [scheme : {"", "https"}, netloc : {"", "d", "[bad"},
             suffix : {"", ".pdf", ".PDF", ".Jpg", ".png", ".gif", ".zip", ".exe", ".css",
                       ".js", ".JS", ".json", ".html", ".pdf?v=1"}]

DenyList == {".pdf", ".jpg", ".png", ".gif", ".zip", ".exe", ".css", ".js"}

\* str.lower() on the endings above
Lower(text) ==
    CASE text = ".PDF" -> ".pdf"
      [] text = ".Jpg" -> ".jpg"
      [] text = ".JS" -> ".js"
      [] OTHER -> text

\* any(url.lower().endswith(ext) for ext in [...])
EndsWithDenied_caseSensitive(url) == url.suffix \in DenyList

EndsWithDenied(url) == Lower(url.suffix) \in DenyList

is_valid_url(url) ==
    IF url.netloc = "[bad" THEN FALSE                      \* except: return False
    ELSE IF url.scheme = "" \/ url.netloc = "" THEN FALSE
    ELSE IF EndsWithDenied(url) THEN FALSE
    ELSE TRUE

(* ----------------------------- priority sampling ---------------------- *)
\* Links are numbered; the thousands digit tells which keywords a link holds:
\* 1 a high-priority keyword, 2 a high- and a medium-priority keyword,
\* 3 a medium-priority keyword, 4 and 0 none. Link 0 is the homepage.
Homepage == 0
IsHigh(link) == link \div 1000 \in {1, 2}
IsMedium(link) == link \div 1000 \in {2, 3}

\* all_possible_links as find_pricing_routes hands it over: distinct links,
\* the homepage among them, in the order list(set(...)) gave
LinkLists ==
    LET Block(class, n) == [j \in 1..n |-> class * 1000 + j] IN
    {IF first THEN <<Homepage>> \o rest ELSE rest \o <<Homepage>> :
        first \in BOOLEAN,
        rest \in {Block(1, h) \o Block(2, b) \o Block(3, m) \o Block(4, l) :
                    h \in {0, 133, 134}, b \in {0, 1}, m \in {0, 134}, l \in {0, 134, 400}}}

\* the head of _ai_identify_pricing_links: the list put into the prompt
SampledLinks(domain, links) ==
    LET Take(list, n) == SubSeq(list, 1, IF n < Len(list) THEN n ELSE Len(list))   \* list[:n]
        all_links == IF domain \notin Range(links) THEN Append(links, domain) ELSE links
        high_priority == SelectSeq(all_links, IsHigh)
        medium_priority == SelectSeq(all_links, IsMedium)
        listed == Range(high_priority) \cup Range(medium_priority)
        low_priority == SelectSeq(all_links, LAMBDA link : link \notin listed)
        first == Take(high_priority, max_links \div 3)
        second == first \o Take(medium_priority, (max_links - Len(first)) \div 2)
        third == second \o Take(low_priority, max_links - Len(second))
    IN  IF Len(all_links) > max_links
        THEN IF domain \notin Range(third) THEN Append(third, domain) ELSE third
        ELSE all_links

(* ------------------------- calls of the helper methods ---------------- *)
(* ------------------------ analyze_pricing_with_ai --------------------- *)
\* behaviours of the one client.chat.completions.create call: it raises, the
\* content is None, or the content is a text
AnalyzerResponses ==
    [call : {"raises", "none"}, text : {<<>>}] \cup [call : {"text"}, text : ResponseTexts]

\* response_text[:500]
Excerpt(text) == SubSeq(text, 1, IF Len(text) > 500 THEN 500 ELSE Len(text))

\* the dictionary analyze_pricing_with_ai returns: the decoded object, or
\* an error object with or without "raw_response"
Analysis(error, has_raw, raw) ==
    [raised |-> FALSE, calls |-> 1, parsed |-> error = "none", error |-> error,
     has_raw |-> has_raw, raw_response |-> raw]

\* one completion request inside try; re.search, json.loads of the match;
\* except Exception returns the "AI analysis failed" object
analyze_pricing_with_ai(response) ==
    IF response.call # "text"
    THEN Analysis("AI analysis failed: e", FALSE, <<>>)
    ELSE IF JsonMatch(response.text) = <<>>
    THEN Analysis("No valid JSON found", TRUE, Excerpt(response.text))
    ELSE IF JsonLoads(JsonMatch(response.text))
    THEN Analysis("none", FALSE, <<>>)
    ELSE Analysis("AI analysis failed: e", FALSE, <<>>)

(* --------------------- Playwright of main_failed.py ------------------- *)
\* PricingExtractor.__init__: self.playwright, self.browser and self.context
\* are None (FALSE: None, TRUE: set)
NewExtractor ==
    [pc |-> "object", fn |-> "playwright", playwright |-> FALSE, browser |-> FALSE,
     context |-> FALSE, last |-> "constructed", calls |-> 0]

\* the step at which a call raises, if any
InitFailures == {"none", "start", "launch", "new_context"}
CloseFailures == {"none", "context.close", "browser.close", "stop"}

\* if not self.playwright: start, launch and new_context, each assigned as
\* soon as it returned
init_playwright(self, fails_at) ==
    IF self.playwright THEN [self EXCEPT !.last = "init_returned"]
    ELSE CASE fails_at = "start" -> [self EXCEPT !.last = "init_raised"]
           [] fails_at = "launch" -> [self EXCEPT !.playwright = TRUE, !.last = "init_raised"]
           [] fails_at = "new_context" ->
                [self EXCEPT !.playwright = TRUE, !.browser = TRUE, !.last = "init_raised"]
           [] OTHER -> [self EXCEPT !.playwright = TRUE, !.browser = TRUE, !.context = TRUE,
                                    !.last = "init_returned"]

\* each of context, browser and playwright that is set is closed and then
\* set to None
close_playwright(self, fails_at) ==
    IF self.context /\ fails_at = "context.close" THEN [self EXCEPT !.last = "close_raised"]
    ELSE IF self.browser /\ fails_at = "browser.close"
    THEN [self EXCEPT !.context = FALSE, !.last = "close_raised"]
    ELSE IF self.playwright /\ fails_at = "stop"
    THEN [self EXCEPT !.context = FALSE, !.browser = FALSE, !.last = "close_raised"]
    ELSE [self EXCEPT !.context = FALSE, !.browser = FALSE, !.playwright = FALSE,
                      !.last = "close_returned"]

\* _extract_with_playwright calls self.init_playwright()
CallInitPlaywright ==
    /\ call.fn = "playwright"
    /\ call.calls < MaxCalls
    /\ \E fails_at \in InitFailures :
         call' = [init_playwright(call, fails_at) EXCEPT !.calls = call.calls + 1]
    /\ UNCHANGED <<batchVars, rk, sm>>

\* __exit__ calls self.close_playwright()
CallClosePlaywright ==
    /\ call.fn = "playwright"
    /\ call.calls < MaxCalls
    /\ \E fails_at \in CloseFailures :
         call' = [close_playwright(call, fails_at) EXCEPT !.calls = call.calls + 1]
    /\ UNCHANGED <<batchVars, rk, sm>>

CallInputs ==
    [pc : {"start"}, fn : {"extract_pricing_content"}, arg : Pages]
    \cup [pc : {"start"}, fn : {"_is_valid_url"}, arg : UrlTexts]
    \cup [pc : {"start"}, fn : {"_ai_identify_pricing_links"}, arg : LinkLists]
    \cup [pc : {"start"}, fn : {"analyze_pricing_with_ai"}, arg : AnalyzerResponses]

Return(value) == call' = [pc |-> "returned", fn |-> call.fn, arg |-> call.arg, result |-> value]

CallExtractPricingContent ==
    /\ call.pc = "start"
    /\ call.fn = "extract_pricing_content"
    /\ Return(extract_pricing_content(variant, call.arg))
    /\ UNCHANGED <<batchVars, rk, sm>>

CallIsValidUrl ==
    /\ call.pc = "start"
    /\ call.fn = "_is_valid_url"
    /\ Return(is_valid_url(call.arg))
    /\ UNCHANGED <<batchVars, rk, sm>>

CallSampleLinks ==
    /\ call.pc = "start"
    /\ call.fn = "_ai_identify_pricing_links"
    /\ Return(SampledLinks(Homepage, call.arg))
    /\ UNCHANGED <<batchVars, rk, sm>>

CallAnalyzePricing ==
    /\ call.pc = "start"
    /\ call.fn = "analyze_pricing_with_ai"
    /\ Return(analyze_pricing_with_ai(call.arg))
    /\ UNCHANGED <<batchVars, rk, sm>>

InitCalls ==
    /\ BatchInit
    /\ variant \in {"main", "main_failed"}
    /\ rk = RkIdle
    /\ sm = SmIdle
    /\ \/ call \in CallInputs
       \/ variant = "main_failed" /\ call = NewExtractor

NextCalls ==
    \/ CallExtractPricingContent
    \/ CallIsValidUrl
    \/ CallSampleLinks
    \/ CallAnalyzePricing
    \/ CallInitPlaywright
    \/ CallClosePlaywright

SpecCalls == InitCalls /\ [][NextCalls]_vars

(* ---------------------------- specification --------------------------- *)
\* Runs of the batch, one after the other on the same disk, each with the API
\* key set; a site is processed in one step
InvokeWithKey == Invoke /\ api_key' = "set"

Next ==
    \/ InvokeWithKey
    \/ StartMain11
    \/ StartNoUrls
    \/ Start
    \/ SkipEmpty
    \/ GetPricingData
    \/ GpdReturn
    \/ CancelAlarm
    \/ TimeoutPropagates
    \/ UnexpectedError
    \/ SaveOpen
    \/ SaveDump
    \/ FinalOpen
    \/ FinalDump
    \/ Cleanup
    \/ InterruptStops
    \/ Crash

Spec == Init /\ [][Next]_vars

\* One run on an empty disk, with or without the API key, with
\* get_pricing_data taken step by step and the signals arriving while it is
\* in flight
FirstRun == runs = 0 /\ Invoke

NextSite ==
    \/ FirstRun
    \/ StartMain11
    \/ StartKeyRejected
    \/ StartNoUrls
    \/ Start
    \/ SkipEmpty
    \/ BeginSite
    \/ GpdEnter
    \/ DiscoverRaises
    \/ DiscoverReturns
    \/ NextUrl
    \/ TryUrl
    \/ GpdReturn
    \/ CancelAlarm
    \/ TimeoutPropagates
    \/ TimeoutInDiscovery
    \/ TimeoutInTrial
    \/ UnexpectedError
    \/ SaveOpen
    \/ SaveDump
    \/ FinalOpen
    \/ FinalDump
    \/ Cleanup
    \/ InterruptStops
    \/ InterruptSwallowed
    \/ Crash

SpecSite == Init /\ [][NextSite]_vars

\* The same run left to itself: no interrupt signal, no kill. The script is
\* one sequential process, so a step that can be taken is taken: every
\* request, browser operation and model call returns or fails in finite time.
NextRun ==
    \/ FirstRun
    \/ StartMain11
    \/ StartKeyRejected
    \/ StartNoUrls
    \/ Start
    \/ SkipEmpty
    \/ BeginSite
    \/ GpdEnter
    \/ DiscoverRaises
    \/ DiscoverReturns
    \/ NextUrl
    \/ TryUrl
    \/ GpdReturn
    \/ CancelAlarm
    \/ TimeoutPropagates
    \/ TimeoutInDiscovery
    \/ TimeoutInTrial
    \/ UnexpectedError
    \/ SaveOpen
    \/ SaveDump
    \/ FinalOpen
    \/ FinalDump
    \/ Cleanup

SpecRun == Init /\ [][NextRun]_vars /\ WF_vars(NextRun)

TypeOK ==
    /\ variant \in Variants
    /\ pc \in {"idle", "startup", "loop", "gpd_entry", "gpd_discover", "gpd_ranked", "gpd_try",
               "gpd_done", "assigned", "save", "save_mid", "final_mid", "cleanup"}
    /\ results \in [Names -> ResultKinds \cup {NoResult}]
    /\ ckptFile.state \in {"absent", "torn", "ok"}
    /\ finalFile.state \in {"absent", "torn", "ok"}
    /\ i \in 0..MaxItems
    /\ k \in 0..(MaxRanked + max_urls_to_try + 2)
    /\ api_key \in KeyStates
    /\ tried \subseteq 1..(MaxRanked + max_urls_to_try + 1)
    /\ source_url \in 0..(MaxRanked + max_urls_to_try + 1)
    /\ siteLog.ranked \in RankedCounts

(* ================================ claims =============================== *)
InputNames == {all_urls[j].name : j \in 1..Len(all_urls)}
DistinctNames == \A j1, j2 \in 1..Len(all_urls) : all_urls[j1].name = all_urls[j2].name => j1 = j2
InLoop == pc \notin {"idle", "startup"}
PrevItem == remaining_urls[i]
ResumedRun == InLoop /\ ResumesFrom(startCkpt)
CkptNames == Keys(startCkpt.results)
RowsIn(S) == Cardinality({j \in 1..Len(all_urls) : all_urls[j].name \in S})
CutShort == pc = "idle" /\ exitHow \in {"interrupted", "crashed"}

\* C1 as stated: on a run resumed from a checkpoint holding N names of input
\* items, the loop has total - N items to process, and get_pricing_data is
\* called for no name of the checkpoint.
C1_AsClaimed ==
    (ResumedRun /\ CkptNames \subseteq InputNames) =>
        /\ Len(remaining_urls) = total_count - Cardinality(CkptNames)
        /\ called \cap CkptNames = {}

\* C1 amended: on a resumed run the loop processes exactly the input rows whose
\* name is not in the checkpoint (total minus the number of rows whose name is in
\* it; total - N when names are pairwise distinct and every checkpoint name is
\* an input name), and get_pricing_data is called for no name of the checkpoint.
C1_ResumeSkipsCompleted ==
    ResumedRun =>
        /\ \A j \in 1..Len(remaining_urls) : remaining_urls[j].name \notin CkptNames
        /\ Len(remaining_urls) = total_count - RowsIn(CkptNames)
        /\ (DistinctNames /\ CkptNames \subseteq InputNames)
              => Len(remaining_urls) = total_count - Cardinality(CkptNames)
        /\ called \cap CkptNames = {}

C1_Witness ==
    /\ ResumedRun
    /\ pc = "save"
    /\ called # {}
    /\ Len(remaining_urls) < total_count

\* C2 as stated: when a run is cut short by an interrupt or a crash, every
\* result held by the last finished checkpoint save is in the checkpoint on
\* disk, and is what the next invocation loads, so none of them is processed again.
C2_CheckpointSurvives ==
    CutShort =>
        \A n \in Keys(durable) :
            /\ ckptFile.state = "ok"
            /\ ckptFile.results[n] = durable[n]
            /\ LoadedResults(ckptFile, finalFile)[n] = durable[n]

\* C3 as stated: once the timeout signal has fired while get_pricing_data is in
\* flight, the site's processing is over and the result recorded for the site is
\* the timeout failure.
C3_TimeoutRecorded ==
    timedOut =>
        \/ pc = "idle"
        \/ pc \in {"save", "save_mid"} /\ results[CurrentItem.name] = "timeout"

C6_AsClaimed ==
    pc = "cleanup" =>
        /\ \A j \in 1..Len(all_urls) : results[all_urls[j].name] # NoResult
        /\ NumResults(results) = Len(all_urls)

\* C6 amended: at normal completion results holds a result under the name of
\* every input item, its names are the input names and the names loaded at
\* startup, and it holds as many results as input rows when the names are
\* pairwise distinct and every result loaded at startup belongs to an input item.
C6_OneResultPerName ==
    pc = "cleanup" =>
        /\ \A j \in 1..Len(all_urls) : results[all_urls[j].name] # NoResult
        /\ Keys(results) = InputNames \cup Keys(LoadedResults(startCkpt, startFinal))
        /\ (DistinctNames /\ Keys(LoadedResults(startCkpt, startFinal)) \subseteq InputNames)
              => NumResults(results) = Len(all_urls)

C6_Witness ==
    /\ pc = "cleanup"
    /\ Len(all_urls) = 2
    /\ DistinctNames
    /\ Len(savedCounts) = 2

\* C7: a result found at startup in the checkpoint or in the final results
\* file stays in results, unchanged, for the whole run.
C7_StartupResultsKept ==
    InLoop =>
        \A n \in Names :
            /\ (startCkpt.state = "ok" /\ startCkpt.results[n] # NoResult)
                  => results[n] = startCkpt.results[n]
            /\ (startFinal.state = "ok" /\ startFinal.results[n] # NoResult)
                  => results[n] = startFinal.results[n]

C7_Witness ==
    /\ pc = "cleanup"
    /\ savedCounts # <<>>
    /\ \E n \in Names : startCkpt.state = "ok" /\ startCkpt.results[n] = "success"
    /\ \E n \in Names : n \in InputNames /\ startCkpt.results[n] = "success"

\* C8: the processed_count values written by the saves of one run never decrease.
C8_CountNonDecreasing ==
    \A j \in 1..(Len(savedCounts) - 1) : savedCounts[j] <= savedCounts[j + 1]

C8_Witness ==
    /\ Len(savedCounts) >= 2
    /\ processed_count > 0

\* C9 as stated: the final file is written only after the loop, as a copy of
\* results; the checkpoint is deleted only after that write; and a run cut
\* short before its final write succeeded has neither deleted the checkpoint
\* nor touched the final results file.
C9_AsClaimed ==
    /\ ckptDeleted => finalPhase = "written"
    /\ pc = "cleanup" => finalFile = ResultsData(results)
    /\ (CutShort /\ finalPhase # "written") => (~ckptDeleted /\ finalFile = startFinal)

\* C9 amended: the final file is written only once every remaining item has
\* been processed, as a copy of results; the checkpoint is deleted only after
\* that write succeeded; a run that stops before the final write begins leaves
\* the final results file untouched, and one that stops during the final write
\* leaves the checkpoint in place (the final file may be left truncated).
C9_FinalWriteOrder ==
    /\ ckptDeleted => (finalPhase = "written" /\ finalFile.state = "ok")
    /\ pc = "cleanup" => finalFile = ResultsData(results)
    /\ (pc \in {"final_mid", "cleanup"})
          => (i = Len(remaining_urls) /\ Len(savedCounts) = Len(remaining_urls))
    /\ finalPhase = "none" => (~ckptDeleted /\ finalFile = startFinal)
    /\ finalPhase = "open" => (~ckptDeleted /\ finalFile.state = "torn")
    /\ (finalPhase # "written" /\ savedCounts # <<>>) => ckptFile.state # "absent"

C9_Witness ==
    /\ pc = "idle"
    /\ exitHow = "complete"
    /\ ckptDeleted
    /\ Keys(finalFile.results) = Names

\* C10 as stated: once an interrupt signal has been delivered, the run has stopped.
C10_InterruptStopsRun ==
    interrupted => pc = "idle"

\* C11: wherever save_checkpoint can run, and between sites, no alarm is
\* pending: the alarm armed for a site was cancelled, or has fired, on every
\* path that leads to the save.
C11_NoAlarmAtSave ==
    pc \in {"idle", "startup", "loop", "save", "save_mid", "final_mid", "cleanup"} => ~alarm

C11_Witness ==
    /\ variant = "main_failed"
    /\ pc = "save_mid"
    /\ i = 1
    /\ results[CurrentItem.name] = "unexpected"
    /\ results[PrevItem.name] = "success"

\* processed_count written by the save before the one of item i
PrevCount == IF i >= 2 THEN savedCounts[i - 1] ELSE LoadedCount(startCkpt, startFinal)

C13_FatalStartup ==
    (Running /\ (api_key = "unset" \/ exitHow = "no_urls")) =>
        /\ called = {}
        /\ ckptFile = startCkpt
        /\ finalFile = startFinal

\* C15: the ranked URLs are tried in order, each once; the first URL whose
\* trial yields plans ends the search with a success whose source_url is that
\* URL, and extract_pricing_content was called on no URL ranked after it.
C15_FirstMatchWins ==
    /\ pc = "gpd_ranked" => tried = 1..(k - 1)
    /\ pc = "gpd_try" => tried \in {1..(k - 1), 1..k}
    /\ (pc = "gpd_done" /\ pricing_data = "success") =>
          /\ k \in 1..nUrls
          /\ source_url = k
          /\ tried = 1..k
    /\ (pc = "gpd_done" /\ pricing_data = "failure") => source_url = 0

C15_Witness ==
    /\ pc = "gpd_done"
    /\ pricing_data = "success"
    /\ nUrls = 3
    /\ source_url = 2
    /\ tried = {1, 2}

\* C20 as stated: every stored result has the keys name, domain and success;
\* one with success=true also source_url, plans and content_length; one with
\* success=false also error.
C20_ResultFields ==
    \A n \in Keys(results) :
        /\ {"name", "domain", "success"} \subseteq Fields(results[n])
        /\ SuccessOf(results[n])
              => {"source_url", "plans", "content_length"} \subseteq Fields(results[n])
        /\ ~SuccessOf(results[n]) => "error" \in Fields(results[n])

\* a response from which a JSON object can be taken: one object, with prose
\* around it at most
ParsesAsJson(text) ==
    \E j \in 1..(Len(text) - 2) :
        /\ SubSeq(text, j, j + 2) = <<"{", "p", "}">>
        /\ \A j2 \in 1..Len(text) : j2 \notin j..(j + 2) => text[j2] \notin {"{", "}"}
ModelFailed(response) == response.call # "text" \/ ~ParsesAsJson(response.text)
RankerReturned == rk.pc \in {"returned", "identified"}

C17_FallbackOnNoUrls ==
    (/\ RankerReturned
     /\ ~ModelFailed(rk.response)
     /\ rk.response.pricing_urls.type \in {"missing", "list"}
     /\ rk.response.pricing_urls.urls = <<>>) =>
        rk.result = fallback_pricing_urls(Domain, rk.collected, rk.net)

\* C18: whatever the language model and the network do, find_pricing_routes
\* and _ai_identify_pricing_links return a list of URLs and raise nothing.
C18_RankerNeverRaises ==
    RankerReturned =>
        /\ ~rk.result.raised
        /\ rk.result.value \in Seq(Urls)

C18_Witness ==
    /\ rk.pc = "returned"
    /\ rk.response.pricing_urls.type = "null"
    /\ \A u \in Urls : rk.net[u].get = "raises"
    /\ rk.result.value = <<>>

\* C19: a HEAD answered with status 200 gives the verdict true after that one
\* request; any other status, or an exception, is followed by one GET whose
\* status decides the verdict; no exception leaves the method.
C19_HeadThenGet ==
    rk.pc = "probed" =>
        /\ rk.probe.head = "200" => (rk.result.verdict /\ rk.result.calls = <<"HEAD">>)
        /\ rk.probe.head # "200" =>
              /\ rk.result.calls = <<"HEAD", "GET">>
              /\ rk.result.verdict = (rk.probe.get = "200")
        /\ ~rk.result.raised

C19_Witness ==
    /\ rk.pc = "probed"
    /\ rk.probe = [head |-> "raises", get |-> "raises"]
    /\ ~rk.result.verdict

\* C14: for every sitemap graph, with or without cycles, the traversal of
\* _get_all_sitemap_links comes to its return, within its iteration and depth
\* caps, and what it returns is a set of URLs the documents list.
C14_SitemapTerminates ==
    /\ <>(sm.pc = "done" /\ sm.all_sitemap_links \subseteq SmUrls)
    /\ [](sm.pc # "off" => (sm.iterations <= max_iterations /\ Len(sm.stack) <= max_depth + 1))

C14_Witness ==
    /\ sm.pc = "done"
    /\ sm.refs[1] = {2}
    /\ sm.refs[2] = {1}
    /\ sm.processed_sitemaps = {1, 2}
    /\ sm.all_sitemap_links = {1, 2, PageOf(1), PageOf(2)}

\* C30 as stated: for each ranked URL analyze_pricing_with_ai is called iff the
\* extracted content is no error string (does not begin with "Error") and has
\* at least 100 characters.
C30_AnalyzerIffUsable ==
    trial.made =>
        (trial.analyzed <=> (trial.content.head # "Error" /\ trial.content.long))

Returned_from(fn) == call.pc = "returned" /\ call.fn = fn

\* C21 as stated: extract_pricing_content returns (it does not raise) body
\* text of at most 50,000 characters or a string that begins with "Error", and
\* on a response whose status is not 200 the error string quotes the status.
C21_ContentOrError ==
    Returned_from("extract_pricing_content") =>
        /\ \/ call.result.head = "Error"
           \/ /\ call.result.len <= 50000
              /\ call.result = [call.arg.text EXCEPT !.len = call.result.len]
        /\ (call.arg.fetch = "ok" /\ call.arg.status # 200) =>
              /\ call.result.head = "Error"
              /\ call.result.status = call.arg.status

\* C22: the value extract_pricing_content returns is the same for the page
\* that differs from the given one only in carrying pricing indicators or not.
C22_IndicatorsIgnored ==
    Returned_from("extract_pricing_content") =>
        extract_pricing_content(variant, [call.arg EXCEPT !.indicators = ~@]) = call.result

C22_Witness ==
    /\ Returned_from("extract_pricing_content")
    /\ variant = "main"
    /\ call.arg.fetch = "ok" /\ call.arg.status = 200 /\ call.arg.body
    /\ ~call.arg.indicators
    /\ call.arg.text.len = 101
    /\ call.result = call.arg.text

C28_AtMostBudget ==
    (Returned_from("_ai_identify_pricing_links") /\ Len(call.arg) > max_links) =>
        /\ Len(call.result) <= max_links
        /\ Homepage \in Range(call.result)

\* C29 as stated: every candidate URL is in exactly one of the classes high,
\* medium and low, and the reduced list holds no URL twice.
C29_ClassesPartition ==
    (Returned_from("_ai_identify_pricing_links") /\ Len(call.arg) > max_links) =>
        /\ \A j \in 1..Len(call.arg) : ~(IsHigh(call.arg[j]) /\ IsMedium(call.arg[j]))
        /\ \A j1, j2 \in 1..Len(call.result) : call.result[j1] = call.result[j2] => j1 = j2

NoRepeats(list) == \A j1, j2 \in 1..Len(list) : list[j1] = list[j2] => j1 = j2

\* C24: in every traversal the while loop of _get_all_sitemap_links takes at
\* most 50 entries off the queue, so at most 50 sitemaps have their links
\* extracted, and _extract_nested_sitemaps fetches no sitemap at a depth
\* greater than 10.
C24_BothCapsHold ==
    sm.pc # "off" =>
        /\ sm.iterations <= 50
        /\ Len(sm.extracted) <= 50
        /\ sm.deepest <= 10
        /\ Len(sm.stack) - 1 <= 10

C24_Witness ==
    /\ sm.pc = "done"
    /\ sm.iterations = 50
    /\ sm.sitemap_queue # <<>>
    /\ sm.deepest = 10
    /\ 12 \in Range(sm.sitemap_queue)
    /\ 12 \notin Range(sm.expanded)

\* C25: the loop takes the sitemap URL at the front of the queue and new ones
\* join at the back; links are extracted only from a sitemap URL the existence
\* check confirmed, and from no sitemap URL twice in one traversal.
C25_FifoCheckedOnce ==
    /\ [](sm.pc # "off" => (NoRepeats(sm.extracted) /\ Range(sm.extracted) \subseteq sm.live))
    /\ [][(sm.pc = "loop" /\ sm'.pc # "done") =>
             /\ sm'.sitemap_queue = Tail(sm.sitemap_queue)
             /\ sm'.extracted \in {sm.extracted, Append(sm.extracted, Head(sm.sitemap_queue))}]_vars
    /\ [][sm.pc = "enqueue" =>
             /\ Len(sm'.sitemap_queue) >= Len(sm.sitemap_queue)
             /\ SubSeq(sm'.sitemap_queue, 1, Len(sm.sitemap_queue)) = sm.sitemap_queue]_vars

C25_Witness ==
    /\ sm.pc = "done"
    /\ sm.refs[1] = {1, 2}
    /\ sm.extracted = <<1, 2>>
    /\ sm.iterations = 3

\* C26 as stated: in one traversal _extract_nested_sitemaps fetches no sitemap
\* URL more than once.
C26_ExpandedOnce ==
    sm.pc # "off" => NoRepeats(sm.expanded)

Answers(probe) == probe.head = "200" \/ probe.get = "200"

\* C27: every URL the ranker returns, from the language model's answer or from
\* the keyword heuristic, was put to _check_url_exists in that call and found
\* to exist; of the URLs the model suggests each is checked once, those that
\* do not exist are dropped and the others keep the model's order.
C27_ReturnedUrlsExist ==
    RankerReturned =>
        /\ \A j \in 1..Len(rk.result.value) :
              /\ rk.result.value[j] \in Range(rk.result.checked)
              /\ Answers(rk.net[rk.result.value[j]])
        /\ (~ModelFailed(rk.response) /\ rk.response.pricing_urls.type = "list") =>
              /\ rk.result.checked = rk.response.pricing_urls.urls
              /\ rk.result.value = SelectSeq(rk.response.pricing_urls.urls,
                                             LAMBDA u : Answers(rk.net[u]))

C27_Witness ==
    /\ rk.pc = "returned"
    /\ ~ModelFailed(rk.response)
    /\ rk.response.pricing_urls.urls = <<"d/about", "d">>
    /\ ~Answers(rk.net["d/about"])
    /\ rk.result.checked = <<"d/about", "d">>
    /\ rk.result.value = <<"d">>

\* the failure dictionary built after the loop over pricing_urls
AllFailed ==
    /\ pc = "gpd_done"
    /\ siteLog.error = "All URLs failed to yield valid pricing data"

\* C31 In main.py get_pricing_data calls the content extractor on at most
\* max_urls_to_try URLs, the first ones of the ranked list in ranked order,
\* and attempted_urls of the failure dictionary are exactly the URLs that
\* were tried; in main_failed.py every ranked URL is tried until one
\* succeeds.
C31_ExtractorBudget ==
    /\ \E m \in 0..k : tried = 1..m
    /\ variant = "main" => tried \subseteq 1..max_urls_to_try
    /\ AllFailed => siteLog.attempted_urls = tried
    /\ variant = "main_failed" /\ AllFailed => tried = 1..siteLog.ranked
    /\ pc = "gpd_done" /\ pricing_data = "success" => tried = 1..source_url

\* main.py was given more than max_urls_to_try ranked URLs, tried the first
\* max_urls_to_try of them and none yielded plans
C31_Witness ==
    /\ variant = "main"
    /\ AllFailed
    /\ siteLog.ranked > max_urls_to_try
    /\ tried = 1..max_urls_to_try

\* a step taken during discovery or during a trial does not end the call:
\* the process stays inside get_pricing_data, unless it is stopped
StaysInGpd ==
    pc \in {"gpd_discover", "gpd_try"} /\ pc' # "idle" =>
        /\ pc' \in {"gpd_discover", "gpd_try", "gpd_ranked", "gpd_done"}
        /\ results' = results

\* a trial that did not succeed is followed by the next URL of the list
MovesToNextUrl ==
    pc = "gpd_try" /\ pc' = "gpd_ranked" => k' = k + 1 /\ pricing_data' = pricing_data

\* C32 An exception raised during discovery or ranking makes get_pricing_data
\* return a failure dictionary carrying the exception message, an empty
\* ranked list makes it return "No pricing pages found" without any call of
\* the content extractor, an exception on one candidate URL moves on to the
\* next URL, and no step of discovery or of a trial leaves get_pricing_data
\* other than by its return statements.
C32_NoExceptionEscapes ==
    /\ [](pc = "gpd_done" /\ pricing_data = "failure" =>
            /\ siteLog.error \in {"Error finding pricing routes: e", "No pricing pages found",
                                  "All URLs failed to yield valid pricing data"}
            /\ siteLog.error # "All URLs failed to yield valid pricing data" =>
                   tried = {} /\ ~trial.made
            /\ siteLog.error = "All URLs failed to yield valid pricing data" =>
                   siteLog.ranked > 0)
    /\ [][StaysInGpd]_vars
    /\ [][MovesToNextUrl]_vars

\* find_pricing_routes returned an empty list: the failure dictionary is
\* about to be returned and the content extractor was not called
C32_Witness ==
    /\ pc = "gpd_done"
    /\ siteLog.error = "No pricing pages found"
    /\ pricing_data = "failure"
    /\ tried = {}

\* the first balanced brace-delimited span of a text: from the first "{" to
\* the "}" that closes it; <<>> when there is none
FirstBalancedSpan(text) ==
    LET opens == {j \in 1..Len(text) : text[j] = "{"}
    IN  IF opens = {} THEN <<>>
        ELSE LET first == CHOOSE j \in opens : \A j2 \in opens : j <= j2
                 Depth(j) == Cardinality({j2 \in first..j : text[j2] = "{"})
                             - Cardinality({j2 \in first..j : text[j2] = "}"})
                 ends == {j \in first..Len(text) : Depth(j) = 0}
             IN  IF ends = {} THEN <<>>
                 ELSE SubSeq(text, first, CHOOSE j \in ends : \A j2 \in ends : j <= j2)

\* C33 as stated: analyze_pricing_with_ai makes exactly one language-model
\* call and never raises; when the response cannot be parsed as JSON it
\* returns an error object that includes a truncated excerpt of the raw
\* response, and when the call fails it returns an error object.
C33_ErrorObjectWithExcerpt ==
    Returned_from("analyze_pricing_with_ai") =>
        /\ ~call.result.raised
        /\ call.result.calls = 1
        /\ call.arg.call = "raises" => call.result.error # "none"
        /\ (call.arg.call = "text" /\ ~call.result.parsed) =>
              /\ call.result.error # "none"
              /\ call.result.has_raw
              /\ call.result.raw_response = Excerpt(call.arg.text)

\* C34 as stated: the response is parsed by taking its first balanced
\* brace-delimited span and decoding it, so that a response holding a valid
\* JSON object followed by further text containing braces is decoded to that
\* first object.
C34_FirstBalancedSpanDecoded ==
    Returned_from("analyze_pricing_with_ai") /\ call.arg.call = "text" =>
        (call.result.parsed <=> JsonLoads(FirstBalancedSpan(call.arg.text)))

\* C35 as stated: every URL the ranker returns on the language-model path is
\* a member of the candidate list that was submitted to the model.
C35_ReturnedAmongCandidates ==
    (/\ RankerReturned
     /\ ~ModelFailed(rk.response)
     /\ ~VerifiedUrls(rk.response.pricing_urls, rk.net).raised) =>
        \A j \in 1..Len(rk.result.value) :
            rk.result.value[j] \in Range(rk.collected) \cup {Domain}

\* the checkpoint on disk was written by a save of the running process
WrittenThisRun == InLoop /\ savedCounts # <<>> /\ ckptFile.state = "ok"

\* C36 as stated: if the item names of the input are pairwise distinct and
\* every result on disk at startup belongs to an input item, then in every
\* checkpoint written processed_count equals the number of entries of
\* results in that checkpoint, on a fresh run and on a resumed run alike.
C36_CountMatchesResults ==
    (/\ WrittenThisRun
     /\ DistinctNames
     /\ Keys(startCkpt.results) \cup Keys(startFinal.results) \subseteq InputNames) =>
        ckptFile.processed_count = NumResults(ckptFile.results)

\* C37 as stated: in every checkpoint written processed_count is at most
\* total_count, for any input list and any prior checkpoint or final
\* results file on disk.
C37_CountAtMostTotal ==
    WrittenThisRun => ckptFile.processed_count <= ckptFile.total_count

\* C38 as stated: once get_pricing_data has produced a success dictionary for
\* a site, the result stored for that site is that success dictionary: no
\* timeout signal and no exception arriving afterwards replaces it with a
\* failure result.
C38_SuccessKept ==
    (pc \in {"assigned", "save", "save_mid"} /\ siteLog.produced = "success") =>
        results[CurrentItem.name] = "success"

\* C40 as stated: whenever init_playwright returns without raising,
\* self.playwright, self.browser and self.context are all set, also after an
\* earlier init_playwright call failed part-way, and after close_playwright
\* all three are None.
C40_ContextUsable ==
    call.fn = "playwright" =>
        /\ call.last = "init_returned" => call.playwright /\ call.browser /\ call.context
        /\ call.last = "close_returned" =>
              ~call.playwright /\ ~call.browser /\ ~call.context

\* the run has ended at normal completion, the final results file written
Completed == pc = "idle" /\ exitHow = "complete" /\ finalFile.state = "ok"

\* C39 as stated: with every request, browser operation and model call
\* returning or failing in finite time, a batch run over any finite input
\* list reaches normal completion: the final results file is eventually
\* written.
C39_AsClaimed == [](pc = "startup" => <>Completed)

\* C39 amended: every run left to itself ends, and a run that has read at
\* least one row from the CSV and entered the loop reaches normal completion,
\* every site's processing having ended and the final results file written;
\* a run that stops at startup (no rows, key rejected, extractor not
\* constructed) ends without writing the final results file.
C39_RunTerminates ==
    /\ [](pc = "startup" => <>(pc = "idle"))
    /\ [](pc = "loop" => <>Completed)
    /\ [](pc = "idle" /\ exitHow \in {"no_urls", "no_key", "type_error"} =>
            finalFile.state = "absent")

\* a run over two rows, one of them timed out on the way, has ended at
\* normal completion with both results in the final results file
C39_Witness ==
    /\ Completed
    /\ NumResults(finalFile.results) = 2
    /\ \E n \in Names : finalFile.results[n] = "timeout"
====
